---- MODULE Spec2Model ----
(***************************************************************************)
(* A model of the transcript ingestion and retrieval pipeline of           *)
(* marver_chat: the chunker (chunk_text), the embedder with retry and      *)
(* deterministic fallback (generate_embedding), the index tracker          *)
(* (get_indexed_file_ids) and the batch upsert pipeline of the API server  *)
(* (src/api/app.py) and of the ingestion scripts.                          *)
(*                                                                         *)
(* Each component has its own specification over the shared variables;    *)
(* the variables of the other components stay at their idle values.        *)
(***************************************************************************)
EXTENDS Integers, Sequences, FiniteSets, TLC

VARIABLES
    \* ---- chunk_text (src/api/app.py:215-235) ----
    text,           \* the argument text, a sequence of characters
    chunk_size,     \* the argument chunk_size
    overlap,        \* the argument overlap
    cleaned_text,   \* " ".join(text.split())
    chunks,         \* the list being built
    start,          \* the running start offset
    ck_pc,          \* "idle" | "loop" | "done"
    ck_trace,       \* history: one record per loop iteration
    \* ---- generate_embedding (src/api/app.py:237-276) ----
    em_text,        \* the argument text
    api_key,        \* the argument api_key ("" when none is configured)
    retries,        \* the argument retries
    attempt,        \* the loop variable of  for attempt in range(retries)
    em_pc,          \* "idle" | "call" | "sleep" | "fallback" | "done" | "raised"
    em_result,      \* the returned vector
    em_source,      \* history: "remote" | "deterministic", who made em_result
    em_calls,       \* history: the outcome of every provider call, in order
    em_sleeps,      \* history: the duration of every asyncio.sleep, in order
    \* ---- the API server (src/api/app.py:296-477) and the vector store ----
    store,          \* the records the vector store holds
    req,            \* per request: the ProcessRequest received
    h_pc,           \* per request: where its handler or background task is
    indexed_file_ids,  \* per request: the result of get_indexed_file_ids
    task,           \* per request: the arguments of the scheduled background task
    response,       \* per request: the HTTP response sent
    bg,             \* per request: the locals of process_documents_background
    events,         \* history: what happened, as a set of records
    faults,         \* history: how many calls to a collaborator have failed
    index_dimension, \* the dimension of the index in the store, 0: no index
    \* ---- the synchronous ingestion script (src/ingest_transcripts.py) ----
    sc_files,       \* the .txt files of TRANSCRIPTS_DIR, in listing order
    sc_store,       \* the records the vector store holds
    sc_pc,          \* where main is
    sc_file_ids,    \* the local file_ids of get_indexed_file_ids
    indexed,        \* main's indexed_file_ids
    new_files,      \* main's new_files
    sc_pos,         \* <<file, offset>>: the batch process_transcript is at
    sc_log,         \* history: what was printed, as a set of records
    sc_faults,      \* history: how many requests of the script have failed
    total_chunks,   \* main's total_chunks
    sc_attempted,   \* history: the chunks sent in an upsert request so far
    \* ---- the deterministic embedders, called in sequence ----
    rng_state,      \* the state of the generator of the random module
    det_pc,         \* "off" | "run"
    det_log,        \* history: function, text, dimension and result of each call
    \* ---- query_vectors (src/api/app.py:479-565) ----
    q_req,          \* the QueryRequest received
    q_pc,           \* where the handler is
    q_matches,      \* the matches of the store's response
    q_response,     \* the HTTP response sent
    \* ---- the deterministic embedders, called in parallel ----
    par,            \* per worker: function, text, position, generator, values
    \* ---- load_documents (src/src/api.py:16-25) ----
    ld_req,         \* the LoadDocsRequest received
    ld_pc,          \* where the handler is
    ld_response     \* the HTTP response sent

ckVars == <<text, chunk_size, overlap, cleaned_text, chunks, start, ck_pc, ck_trace>>
emVars == <<em_text, api_key, retries, attempt, em_pc, em_result, em_source,
            em_calls, em_sleeps>>

apiVars == <<store, req, h_pc, indexed_file_ids, task, response, bg, events,
             faults, index_dimension>>

scVars == <<sc_files, sc_store, sc_pc, sc_file_ids, indexed, new_files, sc_pos,
            sc_log, sc_faults, total_chunks, sc_attempted>>

detVars == <<rng_state, det_pc, det_log>>

qVars == <<q_req, q_pc, q_matches, q_response>>

parVars == <<par>>

ldVars == <<ld_req, ld_pc, ld_response>>

vars == <<ckVars, emVars, apiVars, scVars, detVars, qVars, parVars, ldVars>>

\* What each component leaves alone.
notCk == <<emVars, apiVars, scVars, detVars, qVars, parVars,
          ldVars>>
notEm == <<ckVars, apiVars, scVars, detVars, qVars, parVars,
          ldVars>>
notApi == <<ckVars, emVars, scVars, detVars, qVars, parVars,
          ldVars>>
notSc == <<ckVars, emVars, apiVars, detVars, qVars, parVars,
          ldVars>>
notDet == <<ckVars, emVars, apiVars, scVars, qVars, parVars,
          ldVars>>
notQ == <<ckVars, emVars, apiVars, scVars, detVars, parVars,
          ldVars>>
notPar == <<ckVars, emVars, apiVars, scVars, qVars, det_pc, det_log, ldVars>>
notLd == <<ckVars, emVars, apiVars, scVars, detVars, qVars, parVars>>

\* A component that is not running.
ChunkIdle ==
    /\ text = <<>> /\ chunk_size = 0 /\ overlap = 0 /\ cleaned_text = <<>>
    /\ chunks = <<>> /\ start = 0 /\ ck_pc = "off" /\ ck_trace = <<>>

EmbedIdle ==
    /\ em_text = <<>> /\ api_key = "" /\ retries = 0 /\ attempt = 0
    /\ em_pc = "off" /\ em_result = <<>> /\ em_source = "none"
    /\ em_calls = <<>> /\ em_sleeps = <<>>

ApiIdle ==
    /\ store = {} /\ req = <<>> /\ h_pc = <<>> /\ indexed_file_ids = <<>>
    /\ task = <<>> /\ response = <<>> /\ bg = <<>> /\ events = {} /\ faults = 0
    /\ index_dimension = 0

\* file_ids before its assignment at line 93
Unbound == [bound |-> FALSE, ids |-> {}]

ScriptIdle ==
    /\ sc_files = <<>> /\ sc_store = {} /\ sc_pc = "off" /\ sc_file_ids = Unbound
    /\ indexed = {} /\ new_files = <<>> /\ sc_pos = <<0, 0>> /\ sc_log = {}
    /\ sc_faults = 0 /\ total_chunks = 0 /\ sc_attempted = 0

DetIdle == rng_state = 0 /\ det_pc = "off" /\ det_log = <<>>

QueryIdle ==
    /\ q_req = <<>> /\ q_pc = "off" /\ q_matches = <<>> /\ q_response = <<>>

ParIdle == par = <<>>

LoadIdle == ld_req = <<>> /\ ld_pc = "off" /\ ld_response = <<>>

----------------------------------------------------------------------------
(* Bounds of the model. *)

MaxLen == 24        \* longest base text
MaxPeriods == 2     \* most '.' characters in a text
MaxChunks == 5      \* most loop iterations of chunk_text that are followed
MaxRetries == 3     \* largest value of the argument retries
BigDocChunks == 11  \* chunks of the large document: more than one batch
MaxFaults == 2      \* most failed calls to the store or the provider in a behaviour
MaxCalls == 3       \* most calls of a deterministic embedder in a behaviour
MaxMatches == 3     \* most matches in a response of the store to a query

(* Program constants. *)
Window == 20        \* the sentence-boundary window of chunk_text
Dimension == 1024   \* the default dimension of the deterministic embedding
DefaultRetries == 3 \* the default of the argument retries
BatchSize == 10     \* chunks per upsert batch
MetadataTextLimit == 1000   \* chunk[:1000] in the record's metadata
SampleSize == 100   \* topK of the sample query of get_indexed_file_ids

Min(a, b) == IF a < b THEN a ELSE b
Max(a, b) == IF a > b THEN a ELSE b

----------------------------------------------------------------------------
(* Python's str primitives used by chunk_text, on sequences of characters  *)
(* indexed from 0 as in the source.                                        *)

Whitespace == {" ", "\n", "\t"}

At(s, i) == s[i + 1]

\* text.split() cuts the text at its runs of whitespace and drops the empty
\* pieces at both ends; " ".join puts one space where each inner run was.
\* SqueezeWs is s[lo..hi] with every run of whitespace replaced by one
\* space, computed by halves.
RECURSIVE SqueezeWs(_, _, _)
SqueezeWs(s, lo, hi) ==
    IF lo > hi THEN <<>>
    ELSE IF lo = hi THEN <<IF s[lo] \in Whitespace THEN " " ELSE s[lo]>>
    ELSE LET mid == (lo + hi) \div 2
             l == SqueezeWs(s, lo, mid)
             r == SqueezeWs(s, mid + 1, hi)
         IN IF l[Len(l)] = " " /\ r[1] = " " THEN l \o Tail(r) ELSE l \o r

\* Without the space a squeezed text may begin and end with.
StripSp(s) ==
    LET a == IF s # <<>> /\ s[1] = " " THEN 2 ELSE 1
        b == IF s # <<>> /\ s[Len(s)] = " " THEN Len(s) - 1 ELSE Len(s)
    IN SubSeq(s, a, b)

\* cleaned_text = " ".join(text.split())
CleanText(t) == StripSp(SqueezeWs(t, 1, Len(t)))

\* A slice index as Python clamps it: a negative index counts from the end.
ClampIndex(s, i) ==
    IF i < 0 THEN Max(Len(s) + i, 0) ELSE Min(i, Len(s))

\* s.find(".", from): the least index >= from holding a period, else -1.
Find(s, from) ==
    LET lo == ClampIndex(s, from)
        hits == {i \in lo..(Len(s) - 1) : At(s, i) = "."}
    IN IF from > Len(s) \/ hits = {} THEN -1
       ELSE CHOOSE i \in hits : \A j \in hits : i <= j

\* The bounds [lo, hi) of the characters that s[a:b] holds.
SliceLo(s, a) == ClampIndex(s, a)
SliceHi(s, a, b) == Max(ClampIndex(s, b), ClampIndex(s, a))

\* s[a:b]
Slice(s, a, b) ==
    [i \in 1..(SliceHi(s, a, b) - SliceLo(s, a)) |-> At(s, SliceLo(s, a) + i - 1)]

----------------------------------------------------------------------------
(* chunk_text, one loop iteration per step.                                *)

\* end = min(start + chunk_size, len(cleaned_text))
NaiveEnd(s, st, cs) == Min(st + cs, Len(s))

\* next_period = cleaned_text.find(".", end - 20)
NextPeriod(s, end) == Find(s, end - Window)

\* The end of the chunk that starts at st, after the sentence-boundary step.
ChunkEnd(s, st, cs) ==
    LET end == NaiveEnd(s, st, cs)
        next_period == NextPeriod(s, end)
    IN IF end < Len(s) /\ next_period > 0 /\ next_period < end + Window
       THEN next_period + 1
       ELSE end

\* start = end - overlap
NextStart(end, ov) == end - ov

\* The texts the chunker is run on: n characters with periods at the
\* offsets P, bare (style 0) or with whitespace runs around and inside
\* (style 1, for the texts with at most one period).
BaseText(n, P) == [i \in 1..n |-> IF (i - 1) \in P THEN "." ELSE "a"]

Decorate(b, style) ==
    IF style = 0 THEN b
    ELSE LET h == Len(b) \div 2
         IN <<"\n", " ">> \o SubSeq(b, 1, h) \o <<" ", "\t", " ">>
            \o SubSeq(b, h + 1, Len(b)) \o <<" ">>

\* The subsets of S with at most k elements.
RECURSIVE UpTo(_, _)
UpTo(S, k) ==
    IF k = 0 THEN {{}}
    ELSE LET prev == UpTo(S, k - 1)
         IN prev \cup {p \cup {x} : p \in prev, x \in S}

PeriodSets(n) == UpTo(0..(n - 1), MaxPeriods)

\* (chunk_size, overlap) pairs: small sizes, a size just above the
\* window, the simulation preset of process_documents_background, and a
\* pair with overlap = chunk_size.
ChunkParams == {<<3, 0>>, <<3, 1>>, <<21, 0>>, <<21, 2>>, <<3000, 100>>, <<3, 3>>}

\* The text "A. B. C. " repeated 50 times, chunked with chunk_size 20 and
\* overlap 5.
RECURSIVE Repeat(_, _)
Repeat(s, n) == IF n = 0 THEN <<>> ELSE s \o Repeat(s, n - 1)

ScenarioText == Repeat(<<"A", ".", " ", "B", ".", " ", "C", ".", " ">>, 50)
ScenarioParams == <<20, 5>>

\* A simulation document of 10,000 characters, chunked as
\* process_documents_background does: chunk_text(doc.content, 3000, 100).
DocumentText == [i \in 1..10000 |-> "a"]
SimulationParams == <<3000, 100>>

ChunkInit ==
    /\ \/ /\ \E n \in 0..MaxLen : \E P \in PeriodSets(n) :
                \E style \in (IF Cardinality(P) <= 1 THEN {0, 1} ELSE {0}) :
                   text = Decorate(BaseText(n, P), style)
          /\ \E p \in ChunkParams : chunk_size = p[1] /\ overlap = p[2]
       \/ /\ text = ScenarioText
          /\ chunk_size = ScenarioParams[1] /\ overlap = ScenarioParams[2]
       \/ /\ text = DocumentText
          /\ chunk_size = SimulationParams[1] /\ overlap = SimulationParams[2]
    /\ cleaned_text = <<>>
    /\ chunks = <<>>
    /\ start = 0
    /\ ck_pc = "idle"
    /\ ck_trace = <<>>
    /\ EmbedIdle /\ ApiIdle /\ ScriptIdle /\ DetIdle /\ QueryIdle /\ ParIdle
    /\ LoadIdle

\* cleaned_text = " ".join(text.split()); chunks = []; start = 0
ChunkEnter ==
    /\ ck_pc = "idle"
    /\ cleaned_text' = CleanText(text)
    /\ chunks' = <<>>
    /\ start' = 0
    /\ ck_pc' = "loop"
    /\ UNCHANGED <<text, chunk_size, overlap, ck_trace, notCk>>

\* One iteration of  while start < len(cleaned_text).
ChunkLoop ==
    /\ ck_pc = "loop"
    /\ start < Len(cleaned_text)
    /\ Len(chunks) < MaxChunks
    /\ LET end == ChunkEnd(cleaned_text, start, chunk_size)
       IN /\ chunks' = Append(chunks, Slice(cleaned_text, start, end))
          /\ start' = NextStart(end, overlap)
          /\ ck_trace' = Append(ck_trace,
                [start |-> start,
                 naive |-> NaiveEnd(cleaned_text, start, chunk_size),
                 end   |-> end,
                 lo    |-> SliceLo(cleaned_text, start),
                 hi    |-> SliceHi(cleaned_text, start, end)])
    /\ UNCHANGED <<text, chunk_size, overlap, cleaned_text, ck_pc, notCk>>

\* The loop condition fails: return chunks.
ChunkReturn ==
    /\ ck_pc = "loop"
    /\ start >= Len(cleaned_text)
    /\ ck_pc' = "done"
    /\ UNCHANGED <<text, chunk_size, overlap, cleaned_text, chunks, start, ck_trace,
                   notCk>>

ChunkNext == ChunkEnter \/ ChunkLoop \/ ChunkReturn

----------------------------------------------------------------------------
(* generate_embedding and generate_deterministic_embedding.                *)

\* The character codes text.encode() yields, for the characters in use.
Code(c) ==
    CASE c = "a" -> 97 [] c = "b" -> 98 [] c = "." -> 46 [] c = " " -> 32
      [] OTHER -> 63

\* seed = int(md5(text).hexdigest(), 16) % (2**32): a fixed function of the
\* exact text.  A rolling hash stands in for MD5.
RECURSIVE Md5Seed(_)
Md5Seed(t) ==
    IF t = <<>> THEN 7
    ELSE (Md5Seed(SubSeq(t, 1, Len(t) - 1)) * 31 + Code(t[Len(t)])) % 65521

\* The i-th rng.uniform(-1, 1) drawn from random.Random(seed), in
\* thousandths.  A congruential step stands in for the generator.
Uniform(seed, i) == (((seed + i) * 7919) % 2001) - 1000

\* generate_deterministic_embedding(text, dimension)
GenerateDeterministicEmbedding(t, dimension) ==
    [i \in 1..dimension |-> Uniform(Md5Seed(t), i)]

\* response.json()["data"][0]["embedding"] of a 200 response: the
\* provider's vector for the text (voyage-2 vectors have 1024 entries).
ProviderEmbedding(t) ==
    [i \in 1..1024 |-> (((Md5Seed(t) + 3 * i) * 104) % 2001) - 1000]

\* What one provider call can end in: a 200 response, another status, or
\* an exception raised by the client (transport failure, timeout).
CallOutcomes == {"ok", "status", "exc"}

\* (mutant) only the status check is there, no except clause
HandledStatusOnly(o) == o = "status"

\* The outcomes that leave the attempt without raising to the caller: the
\* status check handles a non-200 response, except Exception the rest.
Handled(o) == o \in {"status", "exc"}

\* (mutant) a linear backoff
BackoffLinear(a) == 2 * a

\* await asyncio.sleep(2 ** attempt)
Backoff(a) == 2 ^ a

\* if attempt < retries - 1: sleep before the next attempt
SleepsAfter(a, r) == a < r - 1

\* (mutant) the early return is never taken
NoCredentialNever(k) == FALSE

\* not api_key
NoCredential(k) == k = ""

EmbedTexts == {<<>>, <<"a">>, <<"a", ".">>, <<"b">>}

EmbedInit ==
    /\ em_text \in EmbedTexts
    /\ api_key \in {"", "voyage-key"}
    /\ retries \in 0..MaxRetries
    /\ attempt = 0
    /\ em_pc = "idle"
    /\ em_result = <<>>
    /\ em_source = "none"
    /\ em_calls = <<>>
    /\ em_sleeps = <<>>
    /\ ChunkIdle /\ ApiIdle /\ ScriptIdle /\ DetIdle /\ QueryIdle /\ ParIdle
    /\ LoadIdle

\* if not api_key: return generate_deterministic_embedding(text)
EmbedNoKey ==
    /\ em_pc = "idle"
    /\ NoCredential(api_key)
    /\ em_result' = GenerateDeterministicEmbedding(em_text, Dimension)
    /\ em_source' = "deterministic"
    /\ em_pc' = "done"
    /\ UNCHANGED <<em_text, api_key, retries, attempt, em_calls, em_sleeps, notEm>>

\* for attempt in range(retries): the first value, or past the loop
EmbedEnter ==
    /\ em_pc = "idle"
    /\ ~NoCredential(api_key)
    /\ attempt' = 0
    /\ em_pc' = IF retries > 0 THEN "call" ELSE "fallback"
    /\ UNCHANGED <<em_text, api_key, retries, em_result, em_source, em_calls,
                   em_sleeps, notEm>>

\* One attempt: await client.post(...), the status check and the handlers.
EmbedCall ==
    /\ em_pc = "call"
    /\ \E o \in CallOutcomes :
          /\ em_calls' = Append(em_calls, o)
          /\ IF o = "ok"
             THEN /\ em_result' = ProviderEmbedding(em_text)
                  /\ em_source' = "remote"
                  /\ em_pc' = "done"
             ELSE /\ em_pc' = IF ~Handled(o) THEN "raised"
                              ELSE IF SleepsAfter(attempt, retries) THEN "sleep"
                              ELSE "fallback"
                  /\ UNCHANGED <<em_result, em_source>>
    /\ UNCHANGED <<em_text, api_key, retries, attempt, em_sleeps, notEm>>

\* await asyncio.sleep(2 ** attempt), then the next value of attempt
EmbedSleep ==
    /\ em_pc = "sleep"
    /\ em_sleeps' = Append(em_sleeps, Backoff(attempt))
    /\ attempt' = attempt + 1
    /\ em_pc' = "call"
    /\ UNCHANGED <<em_text, api_key, retries, em_result, em_source, em_calls, notEm>>

\* Past the loop: return generate_deterministic_embedding(text)
EmbedFallback ==
    /\ em_pc = "fallback"
    /\ em_result' = GenerateDeterministicEmbedding(em_text, Dimension)
    /\ em_source' = "deterministic"
    /\ em_pc' = "done"
    /\ UNCHANGED <<em_text, api_key, retries, attempt, em_calls, em_sleeps, notEm>>

EmbedNext == EmbedNoKey \/ EmbedEnter \/ EmbedCall \/ EmbedSleep \/ EmbedFallback

----------------------------------------------------------------------------
(* The vector store, as the pipeline sees it through its HTTP interface.   *)

\* What a call to the store can end in: a 200 response, another status, or
\* an exception raised by the HTTP client (transport failure).
StoreOutcomes == {"ok", "status", "exc"}

\* The outcomes a call can have now: failures are counted, up to MaxFaults.
Possible(outcomes, ok) == IF faults < MaxFaults THEN outcomes ELSE {ok}
Count(o, ok) == IF o = ok THEN faults ELSE faults + 1

\* (mutant) a store that keeps the record an id had before
StoreUpsertKeepsOld(st, vectors) == st \cup {vectors[k] : k \in DOMAIN vectors}

\* POST /vectors/upsert: insert or overwrite, keyed by record id.
StoreUpsert(st, vectors) ==
    {rec \in st : \A k \in DOMAIN vectors : vectors[k].id # rec.id}
        \cup {vectors[k] : k \in DOMAIN vectors}

\* describe_index_stats: totalVectorCount
TotalVectorCount(st) == Cardinality(st)

\* POST /query with topK: the matches returned, any topK of the records
\* (all of them when the store holds no more than topK).
StoreQuery(st, topK) ==
    IF Cardinality(st) <= topK THEN {st}
    ELSE {m \in SUBSET st : Cardinality(m) = topK}

----------------------------------------------------------------------------
(* The API server: process_documents and process_documents_background.     *)

Runs == {1, 2}

\* A chunk is a piece of text: what it is a piece of, and its length.
\* chunk_text(doc.content, ...) is run on the content of a document; this
\* part of the model takes a document's content as the list of chunks
\* chunk_text returns for it (ChunkSpec follows the loop that builds it).
ChunkTextOf(content, cs, ov) == content

ContentOf(id, n, len) ==
    [k \in 1..n |-> [of |-> id \o ":" \o ToString(k - 1), len |-> len]]

\* The index the requests name: missing, or one of another dimension than
\* the 1024 the server works with.
IndexDimensions == {0, 1536}

\* The documents requests carry.
DocBig == [id |-> "d1", name |-> "Big", type |-> "simulation",
           content |-> ContentOf("d1", BigDocChunks, 3000)]
DocSmall == [id |-> "d2", name |-> "Small", type |-> "general",
             content |-> ContentOf("d2", 1, 512)]

DocTranscript == [id |-> "d3", name |-> "Call", type |-> "transcript",
                  content |-> ContentOf("d3", 1, 512)]

DocLists == {<<>>, <<DocSmall>>, <<DocBig, DocSmall>>, <<DocTranscript, DocSmall>>}

Requests ==
    {[documents |-> l, pineconeApiKey |-> "pc-key", voyageApiKey |-> v] :
        l \in DocLists, v \in {"", "voyage-key"}}
    \cup {[documents |-> <<DocSmall>>, pineconeApiKey |-> "", voyageApiKey |-> ""]}

NoResponse == [status |-> 0]
NoTask == [simulation_docs |-> <<>>, technical_docs |-> <<>>, general_docs |-> <<>>]
NoLocals == [doc_ix |-> 0, doc |-> "", chunks |-> <<>>, i |-> 0,
             vectors |-> <<>>, total_chunks |-> 0]

\* chunk[:1000]
Truncate(chunk) == [of |-> chunk.of, len |-> Min(chunk.len, MetadataTextLimit)]

\* (mutant) the position in the batch instead of the position in the document
VectorIdInBatch(doc_id, i, j) == doc_id \o "-chunk-" \o ToString(j)

\* (mutant) chunk indices counted from 1
VectorIdFromOne(doc_id, i, j) == doc_id \o "-chunk-" \o ToString(i + j + 1)

\* f"{doc.id}-chunk-{i+j}"
VectorId(doc_id, i, j) == doc_id \o "-chunk-" \o ToString(i + j)

\* The vector generate_embedding returns for a chunk: the provider's, or
\* the deterministic one when no key is configured or the provider is down.
EmbeddingOf(chunk, key, down) ==
    [source |-> IF key = "" \/ down THEN "deterministic" ELSE "remote",
     text |-> chunk.of, dim |-> Dimension]

\* (mutant) all the chunks from i on in one batch
BatchVectorsUnbounded(doc, type, cks, i, key, down) ==
    [k \in 1..(Len(cks) - i) |->
        [id |-> VectorId(doc.id, i, k - 1),
         values |-> EmbeddingOf(cks[i + k], key, down),
         metadata |-> [text |-> Truncate(cks[i + k]), fileId |-> doc.id,
                       title |-> doc.name, type |-> type]]]

\* The vectors of the batch chunks[i:i+10]; j counts from 0 as enumerate does.
BatchVectors(doc, type, cks, i, key, down) ==
    [k \in 1..Min(BatchSize, Len(cks) - i) |->
        [id |-> VectorId(doc.id, i, k - 1),
         values |-> EmbeddingOf(cks[i + k], key, down),
         metadata |-> [text |-> Truncate(cks[i + k]), fileId |-> doc.id,
                       title |-> doc.name, type |-> type]]]

\* (mutant) only the status checks, no except clause
TrackerCatchesStatusOnly(o) == o = "status"

\* The failures of a store call that get_indexed_file_ids turns into an
\* empty list: the status checks and except Exception.
TrackerCatches(o) == o \in {"status", "exc"}

\* The failures of the upsert call that the batch loop survives: the status
\* check.  An exception leaves the loops for the handler at the end of
\* process_documents_background.
UpsertSurvives(o) == o = "status"

\* (mutant) the documents are counted before the response
ChunkCountCounted(new_documents) == ToString(Len(new_documents))

\* "chunkCount": "Calculating..."
ChunkCountEstimate(new_documents) == "Calculating..."

\* (mutant) the credential is not checked
NoPineconeKeyNever(key) == FALSE

\* not pinecone_api_key: neither the request nor the environment has one
NoPineconeKey(key) == key = ""

\* (mutant) nothing is filtered out
IsNewAlways(doc, ids) == TRUE

\* doc.id not in indexed_file_ids
IsNew(doc, ids) == doc.id \notin ids

\* (mutant) the early return on an empty index is never taken
IndexEmptyNever(total_vectors) == FALSE

\* if total_vectors == 0: return []
IndexEmpty(total_vectors) == total_vectors = 0

\* The documents of the background task, in the order it takes them, and
\* the chunking parameters and record type of the k-th of them.
TaskDocs(t) == t.simulation_docs \o t.technical_docs \o t.general_docs
IsSimulation(t, k) == k <= Len(t.simulation_docs)

Select(docs, type) == SelectSeq(docs, LAMBDA doc : doc.type = type)

Event(r, kind, doc, i) == [run |-> r, kind |-> kind, doc |-> doc, i |-> i]

ApiInit ==
    /\ store = {}
    /\ req \in [Runs -> Requests]
    /\ h_pc = [r \in Runs |-> "idle"]
    /\ indexed_file_ids = [r \in Runs |-> {}]
    /\ task = [r \in Runs |-> NoTask]
    /\ response = [r \in Runs |-> NoResponse]
    /\ bg = [r \in Runs |-> NoLocals]
    /\ events = {}
    /\ faults = 0
    /\ index_dimension \in IndexDimensions
    /\ ChunkIdle /\ EmbedIdle /\ ScriptIdle /\ DetIdle /\ QueryIdle /\ ParIdle
    /\ LoadIdle

\* except Exception as e: raise HTTPException(status_code=500, ...)
Respond500(r) ==
    /\ response' = [response EXCEPT ![r] = [status |-> 500]]
    /\ h_pc' = [h_pc EXCEPT ![r] = "responded"]

\* The request arrives: the checks before any call is made.  The
\* HTTPException(400) they raise is caught by the except clause of the
\* function, which raises HTTPException(500).
ProcValidate(r) ==
    /\ h_pc[r] = "idle"
    /\ \A q \in Runs : q < r => h_pc[q] # "idle"
    /\ IF req[r].documents = <<>> \/ NoPineconeKey(req[r].pineconeApiKey)
       THEN /\ Respond500(r)
            /\ events' = events
       ELSE /\ h_pc' = [h_pc EXCEPT ![r] = "init"]
            /\ events' = IF \A q \in Runs : q < r => h_pc[q] \in {"responded", "done"}
                         THEN events \cup {Event(r, "after_earlier_runs", "", 0)}
                         ELSE events
            /\ UNCHANGED response
    /\ UNCHANGED <<store, req, indexed_file_ids, task, bg, faults, index_dimension,
                   notApi>>

\* pinecone_info = await init_pinecone(...): a missing index is created with
\* "dimension": 1024; the dimension returned is the one the store reports,
\* and process_documents reads only pinecone_info["host"].
ProcInit(r) ==
    /\ h_pc[r] = "init"
    /\ \E o \in Possible({"ok", "error"}, "ok") :
          /\ faults' = Count(o, "ok")
          /\ IF o = "ok"
             THEN /\ h_pc' = [h_pc EXCEPT ![r] = "stats"]
                  /\ index_dimension' = IF index_dimension = 0 THEN Dimension
                                        ELSE index_dimension
                  /\ UNCHANGED response
             ELSE /\ Respond500(r)
                  /\ UNCHANGED index_dimension
    /\ UNCHANGED <<store, req, indexed_file_ids, task, bg, events, notApi>>

\* get_indexed_file_ids: the describe_index_stats call
ProcStats(r) ==
    /\ h_pc[r] = "stats"
    /\ \E o \in Possible(StoreOutcomes, "ok") :
          /\ faults' = Count(o, "ok")
          /\ IF o = "ok"
             THEN /\ h_pc' = [h_pc EXCEPT ![r] =
                                 IF IndexEmpty(TotalVectorCount(store))
                                 THEN "filter" ELSE "sample"]
                  /\ events' = events \cup
                        {Event(r, "stats_total", "", TotalVectorCount(store))}
                  /\ UNCHANGED response
             ELSE IF TrackerCatches(o)
             THEN /\ h_pc' = [h_pc EXCEPT ![r] = "filter"]
                  /\ events' = events \cup {Event(r, "tracker_failed", o, 0)}
                  /\ UNCHANGED response
             ELSE /\ Respond500(r)
                  /\ events' = events \cup {Event(r, "tracker_raised", o, 0)}
    /\ UNCHANGED <<store, req, indexed_file_ids, task, bg, index_dimension,
                   notApi>>

\* get_indexed_file_ids: the sample query and the fileId of each match
ProcSample(r) ==
    /\ h_pc[r] = "sample"
    /\ \E o \in Possible(StoreOutcomes, "ok") :
          /\ faults' = Count(o, "ok")
          /\ IF o = "ok"
             THEN /\ \E matches \in StoreQuery(store, Min(TotalVectorCount(store), SampleSize)) :
                        indexed_file_ids' = [indexed_file_ids EXCEPT ![r] =
                                                {m.metadata.fileId : m \in matches}]
                  /\ h_pc' = [h_pc EXCEPT ![r] = "filter"]
                  /\ events' = events \cup {Event(r, "sample_query", "", 0)}
                  /\ UNCHANGED response
             ELSE IF TrackerCatches(o)
             THEN /\ h_pc' = [h_pc EXCEPT ![r] = "filter"]
                  /\ events' = events \cup {Event(r, "sample_query", "", 0),
                                             Event(r, "tracker_failed", o, 1)}
                  /\ UNCHANGED <<response, indexed_file_ids>>
             ELSE /\ Respond500(r)
                  /\ events' = events \cup {Event(r, "sample_query", "", 0),
                                             Event(r, "tracker_raised", o, 1)}
                  /\ UNCHANGED indexed_file_ids
    /\ UNCHANGED <<store, req, task, bg, index_dimension,
                   notApi>>

\* new_documents, the grouping by type, add_task and the response
ProcFilter(r) ==
    /\ h_pc[r] = "filter"
    /\ LET new_documents ==
              SelectSeq(req[r].documents, LAMBDA doc : IsNew(doc, indexed_file_ids[r]))
           t == [simulation_docs |-> Select(new_documents, "simulation"),
                 technical_docs |-> Select(new_documents, "technical"),
                 general_docs |-> Select(new_documents, "general")]
       IN IF new_documents = <<>>
          THEN /\ response' = [response EXCEPT ![r] =
                     [status |-> 200, message |-> "All documents are already indexed",
                      new |-> 0,
                      documentCounts |-> [simulation |-> 0, technical |-> 0, general |-> 0],
                      chunkCount |-> "0"]]
               /\ h_pc' = [h_pc EXCEPT ![r] = "responded"]
               /\ UNCHANGED task
          ELSE /\ task' = [task EXCEPT ![r] = t]
               /\ response' = [response EXCEPT ![r] =
                     [status |-> 200, message |-> "Processing started",
                      new |-> Len(new_documents),
                      documentCounts |-> [simulation |-> Len(t.simulation_docs),
                                          technical |-> Len(t.technical_docs),
                                          general |-> Len(t.general_docs)],
                      chunkCount |-> ChunkCountEstimate(new_documents)]]
               /\ h_pc' = [h_pc EXCEPT ![r] = "bg_doc"]
    /\ UNCHANGED <<store, req, indexed_file_ids, bg, events, faults, index_dimension,
                   notApi>>

\* process_documents_background: the next document of the two for loops
\* and its chunks, or the end of the task.
BgNextDoc(r) ==
    /\ h_pc[r] = "bg_doc"
    /\ LET docs == TaskDocs(task[r])
           k == bg[r].doc_ix + 1
       IN IF k > Len(docs)
          THEN /\ h_pc' = [h_pc EXCEPT ![r] = "done"]
               /\ UNCHANGED bg
          ELSE LET cks == IF IsSimulation(task[r], k)
                          THEN ChunkTextOf(docs[k].content, 3000, 100)
                          ELSE ChunkTextOf(docs[k].content, 512, 50)
               IN /\ bg' = [bg EXCEPT ![r].doc_ix = k, ![r].doc = docs[k].id,
                                      ![r].chunks = cks, ![r].i = 0]
                  /\ h_pc' = [h_pc EXCEPT ![r] = IF cks = <<>> THEN "bg_doc" ELSE "bg_embed"]
    /\ UNCHANGED <<store, req, indexed_file_ids, task, response, events, faults, index_dimension,
                   notApi>>

\* batch = chunks[i:i+10] and the vectors built from it
BgEmbedBatch(r) ==
    /\ h_pc[r] = "bg_embed"
    /\ LET docs == TaskDocs(task[r])
           k == bg[r].doc_ix
           type == IF IsSimulation(task[r], k) THEN "simulation" ELSE docs[k].type
       IN \E down \in (IF req[r].voyageApiKey = "" THEN {FALSE}
                       ELSE Possible(BOOLEAN, FALSE)) :
             /\ faults' = Count(down, FALSE)
             /\ bg' = [bg EXCEPT ![r].vectors =
                          BatchVectors(docs[k], type, bg[r].chunks, bg[r].i,
                                       req[r].voyageApiKey, down)]
    /\ h_pc' = [h_pc EXCEPT ![r] = "bg_upsert"]
    /\ UNCHANGED <<store, req, indexed_file_ids, task, response, events, index_dimension,
                   notApi>>

\* The store answers an upsert of vectors of another dimension than the
\* index's with an error status.
Fits(vectors) == \A k \in DOMAIN vectors : vectors[k].values.dim = index_dimension

\* The upsert call of the batch, total_chunks += len(batch), and the next
\* value of i.
BgUpsert(r) ==
    /\ h_pc[r] = "bg_upsert"
    /\ \E o \in (IF Fits(bg[r].vectors) THEN Possible(StoreOutcomes, "ok")
                 ELSE {"status"}) :
          /\ faults' = IF Fits(bg[r].vectors) THEN Count(o, "ok") ELSE faults
          /\ events' = events \cup {Event(r, "upsert_" \o o, bg[r].doc, bg[r].i)}
          /\ store' = IF o = "ok" THEN StoreUpsert(store, bg[r].vectors) ELSE store
          /\ IF o = "ok" \/ UpsertSurvives(o)
             THEN LET next_i == bg[r].i + BatchSize
                  IN /\ bg' = [bg EXCEPT ![r].i = next_i, ![r].vectors = <<>>,
                                  ![r].total_chunks = @ + Len(bg[r].vectors)]
                     /\ h_pc' = [h_pc EXCEPT ![r] =
                                    IF next_i < Len(bg[r].chunks) THEN "bg_embed" ELSE "bg_doc"]
             ELSE /\ h_pc' = [h_pc EXCEPT ![r] = "done"]
                  /\ UNCHANGED bg
    /\ UNCHANGED <<req, indexed_file_ids, task, response, index_dimension,
                   notApi>>

ApiNext ==
    \E r \in Runs :
        \/ ProcValidate(r)
        \/ ProcInit(r)
        \/ ProcStats(r)
        \/ ProcSample(r)
        \/ ProcFilter(r)
        \/ BgNextDoc(r)
        \/ BgEmbedBatch(r)
        \/ BgUpsert(r)

----------------------------------------------------------------------------
(* The specifications.                                                     *)

(* The synchronous ingestion script, src/ingest_transcripts.py. Its        *)
(* chunk_text is the one modelled above; here a file is given by the number *)
(* of chunks it yields.                                                     *)

Transcript1 == [id |-> "t1", chunks |-> BigDocChunks]
Transcript2 == [id |-> "t2", chunks |-> 1]
Listings == {<<>>, <<Transcript1>>, <<Transcript1, Transcript2>>,
             <<Transcript2, Transcript1>>}

\* The records process_transcript builds for chunks i .. i+VECTOR_BATCH_SIZE-1
\* of a file: id f"{file_id}-chunk-{i + idx}", metadata.fileId file_id.
ScBatch(file, i) ==
    {[id |-> VectorId(file.id, i, idx), fileId |-> file.id] :
        idx \in 0..(Min(BatchSize, file.chunks - i) - 1)}

RECURSIVE ScAllRecords(_, _)
ScAllRecords(file, i) ==
    IF i >= file.chunks THEN {}
    ELSE ScBatch(file, i) \cup ScAllRecords(file, i + BatchSize)

ScUpsertInto(st, recs) ==
    {rec \in st : \A n \in recs : n.id # rec.id} \cup recs

ScPossible(outcomes, ok) == IF sc_faults < MaxFaults THEN outcomes ELSE {ok}
ScCount(o, ok) == IF o = ok THEN sc_faults ELSE sc_faults + 1

\* return len(chunks)
ReturnedChunks(file) == file.chunks

\* [file for file in transcript_files if file_id not in indexed_file_ids]
RECURSIVE NewFiles(_, _)
NewFiles(files, ids) ==
    IF files = <<>> THEN <<>>
    ELSE IF Head(files).id \in ids THEN NewFiles(Tail(files), ids)
         ELSE <<Head(files)>> \o NewFiles(Tail(files), ids)

\* The script is started over a directory, against a store that holds the
\* records of the files an earlier run has indexed.
ScriptInit ==
    /\ sc_files \in Listings
    /\ \E done \in SUBSET {Transcript1, Transcript2} :
          sc_store = UNION {ScAllRecords(f, 0) : f \in done}
    /\ sc_pc = "init"
    /\ sc_file_ids = Unbound
    /\ indexed = {}
    /\ new_files = <<>>
    /\ sc_pos = <<0, 0>>
    /\ sc_log = {}
    /\ sc_faults = 0
    /\ total_chunks = 0
    /\ sc_attempted = 0
    /\ ChunkIdle /\ EmbedIdle /\ ApiIdle /\ DetIdle /\ QueryIdle /\ ParIdle
    /\ LoadIdle

\* host, dimension = init_pinecone(): a failed request raises into main's
\* except clause, a missing index calls exit(1).
ScInitPinecone ==
    /\ sc_pc = "init"
    /\ \E o \in ScPossible({"ok", "status", "exc", "no_index"}, "ok") :
          /\ sc_pc' = IF o = "ok" THEN "stats" ELSE "exit1"
          /\ sc_log' = IF o = "ok" THEN sc_log ELSE sc_log \cup {"init_failed"}
          /\ sc_faults' = ScCount(o, "ok")
    /\ UNCHANGED <<sc_files, sc_store, sc_file_ids, indexed, new_files, sc_pos,
                   total_chunks, sc_attempted>>
    /\ UNCHANGED notSc

\* get_indexed_file_ids, the stats request: raise_for_status() stands outside
\* any try, so a failure reaches  except Exception  in main, which exits 1.
ScStats ==
    /\ sc_pc = "stats"
    /\ \E o \in ScPossible(StoreOutcomes, "ok") :
          /\ sc_faults' = ScCount(o, "ok")
          /\ IF o # "ok"
             THEN /\ sc_pc' = "exit1"
                  /\ sc_log' = sc_log \cup {"stats_failed"}
             ELSE /\ sc_pc' = IF Cardinality(sc_store) = 0 THEN "list" ELSE "fetch"
                  /\ sc_log' = sc_log
    /\ UNCHANGED <<sc_files, sc_store, sc_file_ids, indexed, new_files, sc_pos,
                   total_chunks, sc_attempted>>
    /\ UNCHANGED notSc

\* get_indexed_file_ids, the try block: the fetch request, then
\* file_ids = set() and the loop over the vectors of the response. The store
\* answers a fetch of ids [] with no vector or with the vectors it holds.
\* "json": the request succeeds and the loop over the body raises.
ScFetch ==
    /\ sc_pc = "fetch"
    /\ \E o \in ScPossible(StoreOutcomes \cup {"json"}, "ok") :
          /\ sc_faults' = ScCount(o, "ok")
          /\ CASE o = "ok" ->
                    /\ \E vectors \in {{}, sc_store} :
                          sc_file_ids' = [bound |-> TRUE,
                                          ids |-> {v.fileId : v \in vectors}]
                    /\ sc_log' = sc_log
               [] o = "json" ->
                    /\ sc_file_ids' = [bound |-> TRUE, ids |-> {}]
                    /\ sc_log' = sc_log \cup {"body_failed"}
               [] OTHER ->
                    /\ sc_file_ids' = sc_file_ids
                    /\ sc_log' = sc_log \cup {"fetch_failed"}
    /\ sc_pc' = "result"
    /\ UNCHANGED <<sc_files, sc_store, indexed, new_files, sc_pos, total_chunks,
                   sc_attempted>>
    /\ UNCHANGED notSc

\* result = list(file_ids); return result. With file_ids unbound the read
\* raises UnboundLocalError, which reaches main's except clause.
ScResult ==
    /\ sc_pc = "result"
    /\ IF sc_file_ids.bound
       THEN /\ indexed' = sc_file_ids.ids
            /\ sc_pc' = "list"
            /\ sc_log' = sc_log
       ELSE /\ indexed' = indexed
            /\ sc_pc' = "exit1"
            /\ sc_log' = sc_log \cup {"unbound_file_ids"}
    /\ UNCHANGED <<sc_files, sc_store, sc_file_ids, new_files, sc_pos, sc_faults,
                   total_chunks, sc_attempted>>
    /\ UNCHANGED notSc

\* main: list the directory, filter out the indexed files, return when none
\* is left.
ScSelect ==
    /\ sc_pc = "list"
    /\ new_files' = NewFiles(sc_files, indexed)
    /\ sc_pc' = IF new_files' = <<>> THEN "end" ELSE "file"
    /\ sc_pos' = <<1, 0>>
    /\ UNCHANGED <<sc_files, sc_store, sc_file_ids, indexed, sc_log, sc_faults,
                   total_chunks, sc_attempted>>
    /\ UNCHANGED notSc

\* process_transcript, one batch: build the vectors and upsert them. A failed
\* upsert raises (raise_for_status) into the function's own except clause,
\* which returns 0: main goes to the next file. After the last batch the
\* function returns len(chunks), which main adds to total_chunks.
ScProcessBatch ==
    /\ sc_pc = "file"
    /\ sc_pos[1] <= Len(new_files)
    /\ LET file == new_files[sc_pos[1]]
           i == sc_pos[2]
       IN \E o \in ScPossible(StoreOutcomes, "ok") :
             /\ sc_faults' = ScCount(o, "ok")
             /\ sc_attempted' = sc_attempted + Cardinality(ScBatch(file, i))
             /\ total_chunks' = IF o = "ok" /\ i + BatchSize >= file.chunks
                                THEN total_chunks + ReturnedChunks(file)
                                ELSE total_chunks
             /\ IF o = "ok"
                THEN /\ sc_store' = ScUpsertInto(sc_store, ScBatch(file, i))
                     /\ sc_log' = sc_log
                     /\ sc_pos' = IF i + BatchSize < file.chunks
                                  THEN <<sc_pos[1], i + BatchSize>>
                                  ELSE <<sc_pos[1] + 1, 0>>
                ELSE /\ sc_store' = sc_store
                     /\ sc_log' = sc_log \cup {"transcript_failed"}
                     /\ sc_pos' = <<sc_pos[1] + 1, 0>>
    /\ UNCHANGED <<sc_files, sc_pc, sc_file_ids, indexed, new_files>>
    /\ UNCHANGED notSc

\* main: the loop over new_files is over, "Indexing complete!"
ScComplete ==
    /\ sc_pc = "file"
    /\ sc_pos[1] > Len(new_files)
    /\ sc_pc' = "end"
    /\ UNCHANGED <<sc_files, sc_store, sc_file_ids, indexed, new_files, sc_pos,
                   sc_log, sc_faults, total_chunks, sc_attempted>>
    /\ UNCHANGED notSc

ScriptNext ==
    \/ ScInitPinecone
    \/ ScStats
    \/ ScFetch
    \/ ScResult
    \/ ScSelect
    \/ ScProcessBatch
    \/ ScComplete

(* The deterministic embedders called one after the other in one process: *)
(* generate_deterministic_embedding (src/api/app.py:278-288), which draws  *)
(* from a generator of its own, and generate_simple_embedding              *)
(* (src/ingest_transcripts.py:132-138), which seeds and draws from the     *)
(* generator shared by the whole random module.                            *)

\* n draws of uniform(-1, 1) from a generator in state st, and the state
\* they leave it in.
Draws(st, n) == [i \in 1..n |-> Uniform(st, i)]
StateAfter(st, n) == st + n

\* (mutant) the shared generator is not seeded again
SeededStateKept(st, t) == st

\* random.seed(seed): the state of the shared generator after seeding it
\* from the text.
SeededState(st, t) == Md5Seed(t)

DetDims == {3, Dimension}
DetTexts == {<<"a">>, <<"a", ".">>, <<"b">>}

\* The shared generator starts from the operating system's entropy.
DetInit ==
    /\ rng_state \in 0..1
    /\ det_pc = "run"
    /\ det_log = <<>>
    /\ ChunkIdle /\ EmbedIdle /\ ApiIdle /\ ScriptIdle /\ QueryIdle /\ ParIdle
    /\ LoadIdle

\* generate_deterministic_embedding(text, dimension)
DetCall ==
    /\ det_pc = "run"
    /\ Len(det_log) < MaxCalls
    /\ \E t \in DetTexts, n \in DetDims :
          det_log' = Append(det_log,
              [fn |-> "deterministic", text |-> t, dimension |-> n,
               result |-> GenerateDeterministicEmbedding(t, n)])
    /\ UNCHANGED <<rng_state, det_pc>>
    /\ UNCHANGED notDet

\* generate_simple_embedding(text, dimension)
SimpleCall ==
    /\ det_pc = "run"
    /\ Len(det_log) < MaxCalls
    /\ \E t \in DetTexts, n \in DetDims :
          LET seeded == SeededState(rng_state, t)
          IN /\ det_log' = Append(det_log,
                    [fn |-> "simple", text |-> t, dimension |-> n,
                     result |-> Draws(seeded, n)])
             /\ rng_state' = StateAfter(seeded, n)
    /\ UNCHANGED det_pc
    /\ UNCHANGED notDet

DetNext == DetCall \/ SimpleCall

(* The same two embedders called from workers that run in parallel, as a   *)
(* pool of threads embedding the chunks of several documents would: each   *)
(* call of the generator is a step, and steps of different workers         *)
(* interleave.  generate_simple_embedding seeds and draws from the         *)
(* generator of the random module, which all workers share;                *)
(* generate_deterministic_embedding builds a generator of its own.         *)

Workers == {1, 2}
ParDim == 3
ParFns == {"simple", "deterministic"}

ParInit ==
    /\ rng_state \in 0..1
    /\ par \in [Workers -> [fn : ParFns, text : DetTexts, pc : {"seed"},
                            rng : {0}, values : {<<>>}]]
    /\ det_pc = "off" /\ det_log = <<>>
    /\ ChunkIdle /\ EmbedIdle /\ ApiIdle /\ ScriptIdle /\ QueryIdle
    /\ LoadIdle

\* random.seed(seed)  |  rng = random.Random(seed)
ParSeed(w) ==
    /\ par[w].pc = "seed"
    /\ IF par[w].fn = "simple"
       THEN /\ rng_state' = SeededState(rng_state, par[w].text)
            /\ par' = [par EXCEPT ![w].pc = "draw"]
       ELSE /\ par' = [par EXCEPT ![w].pc = "draw",
                                  ![w].rng = Md5Seed(par[w].text)]
            /\ UNCHANGED rng_state
    /\ UNCHANGED notPar

\* one random.uniform(-1, 1)  |  rng.uniform(-1, 1)  of the comprehension
ParDraw(w) ==
    /\ par[w].pc = "draw"
    /\ LET own == par[w].fn = "deterministic"
           st == IF own THEN par[w].rng ELSE rng_state
           vs == Append(par[w].values, Uniform(st, 1))
       IN /\ par' = [par EXCEPT
                 ![w].values = vs,
                 ![w].rng = IF own THEN StateAfter(st, 1) ELSE @,
                 ![w].pc = IF Len(vs) = ParDim THEN "done" ELSE "draw"]
          /\ rng_state' = IF own THEN rng_state ELSE StateAfter(st, 1)
    /\ UNCHANGED notPar

ParNext == \E w \in Workers : ParSeed(w) \/ ParDraw(w)

(* query_vectors: POST /api/indexing/query.                                *)

\* dict.get(key, default)
Get(rec, key, default) == IF key \in DOMAIN rec THEN rec[key] ELSE default

\* The matches a store can return: records built by the ingestion, a
\* record whose metadata lacks title and text, and one with no metadata.
MatchPool ==
    { [id |-> "d1-chunk-0", score |-> 90,
       metadata |-> [text |-> "alpha", fileId |-> "d1", title |-> "Big"]],
      [id |-> "d2-chunk-0", score |-> 80,
       metadata |-> [text |-> "beta", fileId |-> "d2", title |-> "Small"]],
      [id |-> "x-1", score |-> 70, metadata |-> [fileId |-> "x"]],
      [id |-> "y-1", score |-> 60] }

\* The lists of n matches.
RECURSIVE MatchLists(_)
MatchLists(n) ==
    IF n = 0 THEN {<<>>}
    ELSE {Append(l, m) : l \in MatchLists(n - 1), m \in MatchPool}

QueryRequests ==
    [query : {"", "what"}, pineconeApiKey : {"", "pc-key"},
     voyageApiKey : {"", "voyage-key"}, topK : {2, 5}]

\* One item of context_items
ContextItem(match) ==
    LET metadata == Get(match, "metadata", <<>>)
    IN [score |-> Get(match, "score", "None"),
        content |-> Get(metadata, "text", "No text available"),
        metadata |-> [fileId |-> Get(metadata, "fileId", "None"),
                      title |-> Get(metadata, "title", "Unknown")]]

\* f"[{item['metadata']['title']}]: {item['content']}"
ContextEntry(item) == "[" \o item.metadata.title \o "]: " \o item.content

\* (mutant) a separator after every entry
RECURSIVE JoinBlankLineAfterEach(_)
JoinBlankLineAfterEach(entries) ==
    IF entries = <<>> THEN ""
    ELSE Head(entries) \o "\n\n" \o JoinBlankLineAfterEach(Tail(entries))

\* "\n\n".join(entries)
RECURSIVE JoinBlankLine(_)
JoinBlankLine(entries) ==
    IF entries = <<>> THEN ""
    ELSE IF Len(entries) = 1 THEN entries[1]
    ELSE Head(entries) \o "\n\n" \o JoinBlankLine(Tail(entries))

QueryStart ==
    /\ q_req \in QueryRequests
    /\ q_pc = "idle"
    /\ q_matches = <<>>
    /\ q_response = NoResponse
    /\ ChunkIdle /\ EmbedIdle /\ ApiIdle /\ ScriptIdle /\ DetIdle /\ ParIdle
    /\ LoadIdle

\* except Exception as e: raise HTTPException(status_code=500, ...)
QueryRespond500 ==
    /\ q_response' = [status |-> 500]
    /\ q_pc' = "responded"

\* The two checks of the request; an HTTPException(400) raised here is
\* caught by the handler's own except Exception.
QueryValidate ==
    /\ q_pc = "idle"
    /\ IF NoPineconeKey(q_req.pineconeApiKey) \/ q_req.query = ""
       THEN QueryRespond500
       ELSE q_pc' = "init" /\ UNCHANGED q_response
    /\ UNCHANGED <<q_req, q_matches>>
    /\ UNCHANGED notQ

\* pinecone_info = await init_pinecone(...) and
\* query_embedding = await generate_embedding(request.query, voyage_api_key)
QueryPrepare ==
    /\ q_pc = "init"
    /\ \E o \in {"ok", "exc"} :
          IF o = "ok" THEN q_pc' = "query" /\ UNCHANGED q_response
          ELSE QueryRespond500
    /\ UNCHANGED <<q_req, q_matches>>
    /\ UNCHANGED notQ

\* The query request to the store: at most topK matches come back, in the
\* store's order.
QueryStore ==
    /\ q_pc = "query"
    /\ \E o \in StoreOutcomes :
          IF o = "ok"
          THEN /\ \E n \in 0..Min(q_req.topK, MaxMatches) : q_matches' \in MatchLists(n)
               /\ q_pc' = "format"
               /\ UNCHANGED q_response
          ELSE QueryRespond500 /\ UNCHANGED q_matches
    /\ UNCHANGED q_req
    /\ UNCHANGED notQ

\* context_items, combined_context and the returned body
QueryFormat ==
    /\ q_pc = "format"
    /\ LET context_items == [i \in DOMAIN q_matches |-> ContextItem(q_matches[i])]
           combined_context ==
               JoinBlankLine([i \in DOMAIN context_items |->
                                 ContextEntry(context_items[i])])
       IN q_response' = [status |-> 200, context |-> combined_context,
                         rawMatches |-> context_items]
    /\ q_pc' = "responded"
    /\ UNCHANGED <<q_req, q_matches>>
    /\ UNCHANGED notQ

QueryNext == QueryValidate \/ QueryPrepare \/ QueryStore \/ QueryFormat

(* load_documents: POST /load-documents (src/src/api.py:16-25).            *)

\* folder_id "" and file_ids <<>> stand for the values Python takes as
\* false: None and the empty string or list.
LoadRequests == [folder_id : {"", "folder"}, file_ids : {<<>>, <<"f1">>}]

LoadStart ==
    /\ ld_req \in LoadRequests
    /\ ld_pc = "idle"
    /\ ld_response = NoResponse
    /\ ChunkIdle /\ EmbedIdle /\ ApiIdle /\ ScriptIdle /\ DetIdle /\ QueryIdle
    /\ ParIdle

\* if not request.folder_id and not request.file_ids: raise HTTPException(400),
\* inside the try: except Exception catches it and raises HTTPException(500).
LoadValidate ==
    /\ ld_pc = "idle"
    /\ IF ld_req.folder_id = "" /\ ld_req.file_ids = <<>>
       THEN /\ ld_response' = [status |-> 500]
            /\ ld_pc' = "responded"
       ELSE /\ ld_pc' = "load"
            /\ UNCHANGED ld_response
    /\ UNCHANGED ld_req
    /\ UNCHANGED notLd

\* result = chatbot.load_documents(...): it returns or raises.
LoadCall ==
    /\ ld_pc = "load"
    /\ \E o \in {"ok", "exc"} :
          ld_response' = [status |-> IF o = "ok" THEN 200 ELSE 500]
    /\ ld_pc' = "responded"
    /\ UNCHANGED ld_req
    /\ UNCHANGED notLd

LoadNext == LoadValidate \/ LoadCall

----------------------------------------------------------------------------
ChunkSpec == ChunkInit /\ [][ChunkNext]_vars

EmbedSpec == EmbedInit /\ [][EmbedNext]_vars

ApiSpec == ApiInit /\ [][ApiNext]_vars

ScriptSpec == ScriptInit /\ [][ScriptNext]_vars

DetSpec == DetInit /\ [][DetNext]_vars

QuerySpec == QueryStart /\ [][QueryNext]_vars

ParSpec == ParInit /\ [][ParNext]_vars

\* The servers: a request to one of the endpoints.
ServerInit == ApiInit \/ QueryStart \/ LoadStart
ServerNext ==
    \/ (h_pc # <<>> /\ ApiNext)
    \/ (q_pc # "off" /\ QueryNext)
    \/ (ld_pc # "off" /\ LoadNext)
ServerSpec == ServerInit /\ [][ServerNext]_vars

----------------------------------------------------------------------------
(* Claims about chunk_text.                                                *)

\* The parameter pairs the claims call valid.
ValidParams == 0 <= overlap /\ overlap < chunk_size

\* The loop is about to run from a start offset it has already run from.
\* The loop body reads nothing but start and the fixed cleaned_text, so
\* from here it repeats the same iterations for ever.
Revisits ==
    /\ ck_pc = "loop"
    /\ start < Len(cleaned_text)
    /\ \E i \in DOMAIN ck_trace : ck_trace[i].start = start

\* Offset p of cleaned_text lies inside a chunk appended so far.
Covered(p) == \E i \in DOMAIN ck_trace : ck_trace[i].lo <= p /\ p < ck_trace[i].hi

AllCovered == \A p \in 0..(Len(cleaned_text) - 1) : Covered(p)

\* C1: for every text and every 0 <= overlap < chunk_size chunk_text
\* terminates, its loop reaching start >= len(cleaned_text).  start
\* ranges over finitely many offsets and the loop is deterministic in it,
\* so the loop terminates exactly when it never comes back to a start
\* offset it has already run from.
C1_ChunkTextTerminates == ValidParams => ~Revisits

\* C2: for overlap < chunk_size every character position of the
\* normalized text lies inside at least one chunk chunk_text produces:
\* of the list it returns, or, where the loop has begun to repeat itself,
\* of all the chunks it will ever append.
C2_EveryPositionInAChunk ==
    (ValidParams /\ (ck_pc = "done" \/ Revisits)) => AllCovered

\* C13: the sentence-boundary step never decreases a chunk's end: every
\* chunk ends at or after its naive boundary min(start + chunk_size, len),
\* and where the end differs from the naive boundary it lies just after a
\* period found at or ahead of that boundary.
C13_BoundaryNeverDecreases ==
    \A i \in DOMAIN ck_trace :
        LET e == ck_trace[i]
        IN /\ e.end >= e.naive
           /\ e.end # e.naive =>
                 /\ e.end - 1 >= e.naive
                 /\ At(cleaned_text, e.end - 1) = "."

\* The number of characters of cleaned_text that chunks i and j both hold.
Shared(i, j) ==
    Max(0, Min(ck_trace[i].hi, ck_trace[j].hi) - Max(ck_trace[i].lo, ck_trace[j].lo))

\* C14: the first chunk starts at offset 0, each later chunk starts at
\* previous_end - overlap, and consecutive chunks share at least overlap
\* characters (all of the previous chunk where that is shorter than
\* overlap); so it is for "A. B. C. " * 50 with chunk_size 20, overlap 5.
C14_ConsecutiveChunksOverlap ==
    \A i \in DOMAIN ck_trace :
        /\ i = 1 => ck_trace[i].start = 0
        /\ i > 1 =>
              /\ ck_trace[i].start = ck_trace[i - 1].end - overlap
              /\ Shared(i - 1, i) >=
                    Min(overlap, ck_trace[i - 1].hi - ck_trace[i - 1].lo)

\* C15: chunk_text called with overlap >= chunk_size is rejected before
\* the loop starts: no loop iteration runs and no chunk list is returned.
C15_OverlapBelowChunkSizeEnforced ==
    overlap >= chunk_size => (ck_trace = <<>> /\ ck_pc \notin {"done"})

\* C16: for the simulation document of 10,000 characters chunk_text
\* (chunk_size 3000, overlap 100) hands exactly 4 chunks to the pipeline,
\* which sends them in one upsert: once the outcome of the loop is settled
\* (it has returned, or has begun to repeat itself) the function has
\* returned and the list holds 4 chunks.
C16_TenThousandCharsFourChunks ==
    (text = DocumentText /\ (ck_pc = "done" \/ Revisits)) =>
        (ck_pc = "done" /\ Len(chunks) = 4)

----------------------------------------------------------------------------
(* Claims about generate_embedding.                                        *)

\* A credential is configured and each of the R attempts was made and
\* ended in a non-200 response or a raised exception.
AllAttemptsFailed ==
    /\ api_key # ""
    /\ em_pc \notin {"idle", "off"}
    /\ Len(em_calls) = retries
    /\ \A i \in DOMAIN em_calls : em_calls[i] \in {"status", "exc"}

\* C5: generate_embedding never fails its caller: nothing is raised, and
\* when a credential is configured and all R attempts fail it goes on to
\* the fallback and returns generate_deterministic_embedding(text), a
\* vector of 1024 entries.
C5_FallbackNeverRaises ==
    /\ em_pc # "raised"
    /\ AllAttemptsFailed => em_pc \in {"fallback", "done"}
    /\ (AllAttemptsFailed /\ em_pc = "done") =>
          /\ em_source = "deterministic"
          /\ em_result = GenerateDeterministicEmbedding(em_text, Dimension)
          /\ Len(em_result) = 1024

C5_Witness ==
    /\ em_pc = "done"
    /\ retries = DefaultRetries
    /\ em_calls = <<"exc", "status", "exc">>
    /\ em_source = "deterministic"
    /\ Len(em_result) = 1024

\* C10: with a credential, at most R provider calls are made, none after
\* the first 200 response; failed attempt number a (from 0) is followed by
\* a sleep of 2^a before the next attempt, and the final attempt by none.
C10_RetryAndBackoff ==
    /\ Len(em_calls) <= retries
    /\ \A i \in 1..(Len(em_calls) - 1) : em_calls[i] # "ok"
    /\ \A i \in DOMAIN em_sleeps :
          /\ em_sleeps[i] = 2 ^ (i - 1)
          /\ i <= Len(em_calls) /\ em_calls[i] # "ok"
          /\ i <= retries - 1
    /\ em_pc = "call" => (Len(em_sleeps) = Len(em_calls) /\ attempt = Len(em_calls))
    /\ em_pc \in {"fallback", "done"} => Len(em_sleeps) >= Len(em_calls) - 1

C10_Witness ==
    /\ em_pc = "done"
    /\ retries = DefaultRetries
    /\ em_calls = <<"status", "exc", "ok">>
    /\ em_sleeps = <<1, 2>>
    /\ em_source = "remote"

\* C11: with no embedding credential generate_embedding returns the
\* deterministic embedding at once: no request to the provider is issued
\* and no backoff sleep is taken, whatever retries is.
C11_NoCredentialNoRequest ==
    api_key = "" =>
        /\ em_calls = <<>>
        /\ em_sleeps = <<>>
        /\ em_pc \in {"off", "idle", "done"}
        /\ em_pc = "done" =>
              /\ em_source = "deterministic"
              /\ em_result = GenerateDeterministicEmbedding(em_text, Dimension)

C11_Witness ==
    /\ api_key = ""
    /\ retries = DefaultRetries
    /\ em_text = <<"a", ".">>
    /\ em_pc = "done"
    /\ em_source = "deterministic"

\* C12: any two calls of a deterministic embedder with the same text and
\* dimension return the same vector, of length dimension, whatever calls
\* were made before or between them.
C12_DeterministicEmbedderReproducible ==
    \A i \in DOMAIN det_log :
        /\ Len(det_log[i].result) = det_log[i].dimension
        /\ \A j \in DOMAIN det_log :
              (det_log[i].text = det_log[j].text
                  /\ det_log[i].dimension = det_log[j].dimension)
              => det_log[i].result = det_log[j].result

\* The same text embedded twice by the script's embedder, another text in
\* between.
C12_Witness ==
    /\ Len(det_log) = 3
    /\ \A i \in 1..3 : det_log[i].fn = "simple" /\ det_log[i].dimension = 3
    /\ det_log[1].text = <<"a">> /\ det_log[2].text = <<"b">>
    /\ det_log[3].text = <<"a">>
    /\ det_log[1].result = det_log[3].result
    /\ det_log[1].result # det_log[2].result

----------------------------------------------------------------------------
(* Claims about the API server's ingestion.                                *)

Finished(r) == h_pc[r] \in {"responded", "done"}

\* The offsets at which the batches of a list of n chunks start.
BatchStarts(n) == {i \in 0..(n - 1) : i % BatchSize = 0}

UpsertKinds == {"upsert_ok", "upsert_status", "upsert_exc"}

\* The upsert of the batch of document d at offset i was issued in run r.
Attempted(r, d, i) ==
    \E e \in events : e.run = r /\ e.doc = d /\ e.i = i /\ e.kind \in UpsertKinds

DocAttempted(r, doc) ==
    \A i \in BatchStarts(Len(doc.content)) : Attempted(r, doc.id, i)

\* The records the store holds for chunk k (from 0) of a document.
RecordsOf(doc, k) ==
    {rec \in store : /\ rec.metadata.fileId = doc.id
                     /\ rec.metadata.text.of = doc.content[k + 1].of}

AllStored(doc) == \A k \in 0..(Len(doc.content) - 1) : RecordsOf(doc, k) # {}

AllDocs == {DocBig, DocSmall}

\* Run r had a batch of document d stored and another batch of d failed.
PartlyStored(r, d) ==
    /\ \E e \in events : e.run = r /\ e.doc = d /\ e.kind = "upsert_ok"
    /\ \E e \in events : e.run = r /\ e.doc = d
                          /\ e.kind \in {"upsert_status", "upsert_exc"}

\* Run r met no failure of the store and was answered with 200.
CleanRun(r) ==
    /\ response[r].status = 200
    /\ \A e \in events : e.run = r =>
          e.kind \notin {"upsert_status", "upsert_exc", "tracker_failed", "tracker_raised"}

\* C3: if a batch upsert of document d failed in a run while other batches
\* of d were stored, a later run over the same documents, during which the
\* store accepts every call, ends with every chunk of d stored.
C3_RerunStoresMissedBatches ==
    \A doc \in AllDocs :
        ( /\ PartlyStored(1, doc.id)
          /\ Event(2, "after_earlier_runs", "", 0) \in events
          /\ req[2].documents = req[1].documents
          /\ Finished(2)
          /\ CleanRun(2) ) => AllStored(doc)

\* The chunks (document, k) that a successful upsert has carried.
UpsertedChunks ==
    {<<doc, k>> \in AllDocs \X (0..(BigDocChunks - 1)) :
        /\ k < Len(doc.content)
        /\ \E e \in events : /\ e.kind = "upsert_ok" /\ e.doc = doc.id
                              /\ e.i <= k /\ k < e.i + BatchSize}

\* C4: however often a chunk (document id, chunk index, content) has been
\* upserted, the store holds exactly one record for it, the one with id
\* "{documentId}-chunk-{chunkIndex}", and no record more than there are
\* chunks upserted.
C4_OneRecordPerChunk ==
    /\ \A c \in UpsertedChunks :
          /\ Cardinality(RecordsOf(c[1], c[2])) = 1
          /\ \A rec \in RecordsOf(c[1], c[2]) :
                rec.id = c[1].id \o "-chunk-" \o ToString(c[2])
    /\ Cardinality(store) = Cardinality(UpsertedChunks)

\* The last chunk of the big document was upserted by both runs.
C4_Witness ==
    /\ Event(1, "upsert_ok", "d1", BatchSize) \in events
    /\ Event(2, "upsert_ok", "d1", BatchSize) \in events
    /\ Cardinality(store) = BigDocChunks

\* C6: after a failed upsert of a batch (a non-200 response or a transport
\* failure) process_documents_background goes on: when the task has ended,
\* every batch of every document of the task has been attempted.
C6_FailedUpsertContinues ==
    \A r \in Runs :
        ( /\ h_pc[r] = "done"
          /\ \E e \in events : e.run = r /\ e.kind \in {"upsert_status", "upsert_exc"} )
        => \A k \in DOMAIN TaskDocs(task[r]) : DocAttempted(r, TaskDocs(task[r])[k])

\* C7: an exception raised while one document is processed skips only that
\* document: when the task has ended, every other document of the run has
\* had all its batches embedded and upserted.
C7_OnlyTheFailingDocumentSkipped ==
    \A r \in Runs : \A e \in events :
        (h_pc[r] = "done" /\ e.run = r /\ e.kind = "upsert_exc")
        => \A k \in DOMAIN TaskDocs(task[r]) :
              LET doc == TaskDocs(task[r])[k]
              IN doc.id # e.doc =>
                    \A i \in BatchStarts(Len(doc.content)) :
                        \E a \in events : /\ a.run = r /\ a.doc = doc.id /\ a.i = i
                                           /\ a.kind \in {"upsert_ok", "upsert_status"}

\* C8: get_indexed_file_ids never raises to process_documents, and after
\* any failure of its stats call or sample query it returns the empty list:
\* the request is answered 200 with every document counted as new.
C8_TrackerDegradesToEmpty ==
    \A r \in Runs :
        /\ \A e \in events : e.run = r => e.kind # "tracker_raised"
        /\ (\E e \in events : e.run = r /\ e.kind = "tracker_failed")
           => /\ h_pc[r] \notin {"stats", "sample"}
              /\ indexed_file_ids[r] = {}
              /\ h_pc[r] # "filter" =>
                    /\ response[r].status = 200
                    /\ response[r].new = Len(req[r].documents)

\* The sample query of the second run raises while the store already
\* holds both documents: both are taken as new again.
C8_Witness ==
    /\ Event(2, "tracker_failed", "exc", 1) \in events
    /\ Event(1, "upsert_ok", "d2", 0) \in events
    /\ h_pc[2] = "bg_embed"
    /\ response[2].status = 200 /\ response[2].new = 2

\* Every batch of the document was upserted with success in run r.
DocAllOk(r, doc) ==
    \A i \in BatchStarts(Len(doc.content)) :
        Event(r, "upsert_ok", doc.id, i) \in events

\* C17: every record the pipeline builds has id "{doc.id}-chunk-{k}" and
\* metadata.fileId = doc.id, k being the 0-based position of its chunk in
\* the document's chunk list (batch offset i plus position j in the batch);
\* batches start at multiples of 10 and hold all chunks up to the next one,
\* so a fully upserted document has exactly the ids of k = 0..n-1, and two
\* different (document, chunk) pairs never share an id.
C17_RecordIdsFollowChunkIndex ==
    /\ \A r \in Runs : h_pc[r] = "bg_upsert" =>
          LET b == bg[r]
          IN /\ b.i % BatchSize = 0
             /\ Len(b.vectors) = Min(BatchSize, Len(b.chunks) - b.i)
             /\ \A j \in 0..(Len(b.vectors) - 1) :
                   /\ b.vectors[j + 1].id = b.doc \o "-chunk-" \o ToString(b.i + j)
                   /\ b.vectors[j + 1].metadata.fileId = b.doc
                   /\ b.vectors[j + 1].metadata.text.of = b.chunks[b.i + j + 1].of
    /\ \A x \in store : \A y \in store :
          x.id = y.id => /\ x.metadata.fileId = y.metadata.fileId
                         /\ x.metadata.text.of = y.metadata.text.of
    /\ \A doc \in AllDocs : \A r \in Runs :
          DocAllOk(r, doc) =>
             {rec.id : rec \in {x \in store : x.metadata.fileId = doc.id}}
                = {doc.id \o "-chunk-" \o ToString(k) : k \in 0..(Len(doc.content) - 1)}

\* The second batch of the big document has been built and the whole
\* document upserted.
C17_Witness ==
    /\ DocAllOk(1, DocBig)
    /\ h_pc[2] = "bg_upsert"
    /\ bg[2].doc = "d1" /\ bg[2].i = BatchSize
    /\ bg[2].vectors[1].id = "d1-chunk-10"

\* C18: when the store reports totalVectorCount = 0, get_indexed_file_ids
\* returns the empty list and issues no sample query.
C18_EmptyIndexNoSampleQuery ==
    \A r \in Runs :
        Event(r, "stats_total", "", 0) \in events =>
            /\ Event(r, "sample_query", "", 0) \notin events
            /\ h_pc[r] \notin {"stats", "sample"}
            /\ indexed_file_ids[r] = {}

\* The first run found the index empty and went on to upsert.
C18_Witness ==
    /\ Event(1, "stats_total", "", 0) \in events
    /\ Event(1, "sample_query", "", 0) \notin events
    /\ Event(1, "upsert_ok", "d1", 0) \in events

\* The request of run r has been filtered.
Filtered(r) == h_pc[r] \in {"responded", "bg_doc", "bg_embed", "bg_upsert", "done"}

\* C19: a document whose id get_indexed_file_ids returned is not part of
\* the run's background task: it is never the document being chunked and
\* embedded and no upsert is issued for it; and when every requested
\* document is in the returned set, no task is scheduled and the answer
\* reports chunkCount 0 and documentCounts 0, 0, 0.
C19_IndexedDocumentsSkipped ==
    \A r \in Runs :
        /\ \A d \in indexed_file_ids[r] :
              /\ \A k \in DOMAIN TaskDocs(task[r]) : TaskDocs(task[r])[k].id # d
              /\ bg[r].doc # d
              /\ \A e \in events : (e.run = r /\ e.kind \in UpsertKinds) => e.doc # d
        /\ ( /\ Filtered(r) /\ response[r].status = 200
             /\ \A k \in DOMAIN req[r].documents :
                   req[r].documents[k].id \in indexed_file_ids[r] )
           => /\ h_pc[r] = "responded"
              /\ task[r] = NoTask
              /\ response[r].chunkCount = "0"
              /\ response[r].documentCounts =
                    [simulation |-> 0, technical |-> 0, general |-> 0]

\* The second run found the big document indexed and upserted the small
\* one only.
C19_Witness ==
    /\ req[2].documents = <<DocBig, DocSmall>>
    /\ indexed_file_ids[2] = {"d1"}
    /\ Event(2, "upsert_ok", "d2", 0) \in events
    /\ h_pc[2] = "done"

\* C22: a request that passes validation (documents given, credential
\* present) is always answered with a success status, whatever the vector
\* store and the embedding provider do.
C22_AcceptedRequestAcknowledged ==
    \A r \in Runs :
        ( /\ req[r].documents # <<>>
          /\ req[r].pineconeApiKey # ""
          /\ response[r] # NoResponse )
        => response[r].status = 200

\* The background task of run r has begun or ended.
TaskRunning(r) == h_pc[r] \in {"bg_doc", "bg_embed", "bg_upsert", "done"}

\* C23: the response is produced before any document is chunked, embedded
\* or upserted, and reports chunkCount "Calculating..."; a background
\* task runs for every request answered with new documents and for no
\* other.
C23_ResponseBeforeBackgroundWork ==
    \A r \in Runs :
        /\ response[r] = NoResponse =>
              /\ bg[r] = NoLocals /\ task[r] = NoTask
              /\ \A e \in events : (e.run = r) => e.kind \notin UpsertKinds
        /\ TaskRunning(r) =>
              /\ response[r].status = 200
              /\ response[r].chunkCount = "Calculating..."
              /\ response[r].new > 0
        /\ (response[r].status = 200 /\ response[r].new > 0) => TaskRunning(r)
        /\ (bg[r] # NoLocals \/ \E e \in events : e.run = r /\ e.kind \in UpsertKinds)
              => TaskRunning(r)

\* The response is out and the task has not yet taken its first document.
C23_Witness ==
    /\ h_pc[1] = "bg_doc"
    /\ response[1].status = 200 /\ response[1].chunkCount = "Calculating..."
    /\ bg[1] = NoLocals
    /\ Len(TaskDocs(task[1])) = 2

\* C24: every upsert call of a run carries between 1 and 10 vectors, each
\* with the embedding of its chunk already computed, and it is issued only
\* after the upsert calls of all earlier batches of the document have
\* returned.
C24_BatchesOfTenInSequence ==
    \A r \in Runs : h_pc[r] = "bg_upsert" =>
        LET b == bg[r]
        IN /\ 1 <= Len(b.vectors) /\ Len(b.vectors) <= 10
           /\ \A k \in DOMAIN b.vectors :
                 /\ b.vectors[k].values.text = b.chunks[b.i + k].of
                 /\ b.vectors[k].values.dim = Dimension
           /\ \A i \in BatchStarts(Len(b.chunks)) :
                 (i < b.i <=> Attempted(r, b.doc, i))

\* The second batch of the big document, one vector, is about to be sent
\* after the first batch of ten has returned.
C24_Witness ==
    /\ h_pc[1] = "bg_upsert"
    /\ bg[1].doc = "d1" /\ bg[1].i = 10
    /\ Len(bg[1].vectors) = 1
    /\ Event(1, "upsert_ok", "d1", 0) \in events
    /\ bg[1].total_chunks = 10

----------------------------------------------------------------------------
(* Claims about the synchronous ingestion script.                          *)

TrackerRequestFailed == sc_log \cap {"stats_failed", "fetch_failed"} # {}

\* C9: when the stats request or the fetch request of get_indexed_file_ids
\* fails, the function returns the empty list and main goes on to index
\* every file of the directory: it never exits on that failure.
C9_SyncTrackerContinuesEmpty ==
    TrackerRequestFailed =>
        /\ sc_pc # "exit1"
        /\ sc_pc \notin {"stats", "fetch", "result"} => indexed = {}
        /\ sc_pc \in {"file", "end"} => new_files = sc_files

----------------------------------------------------------------------------
(* Claims about query_vectors.                                             *)

\* The store has answered the query of the request with 200.
StoreAnswered == q_pc \in {"format", "responded"} /\ q_response.status # 500

\* The first k items as entries "[title]: content", a blank line between
\* two of them.
RECURSIVE ContextOfFirst(_, _)
ContextOfFirst(items, k) ==
    IF k = 0 THEN ""
    ELSE IF k = 1 THEN "[" \o items[1].metadata.title \o "]: " \o items[1].content
    ELSE ContextOfFirst(items, k - 1) \o "\n\n"
         \o "[" \o items[k].metadata.title \o "]: " \o items[k].content

\* C20: for a response of the store with n matches (n >= 0, possibly fewer
\* than topK) query_vectors answers 200 with rawMatches of exactly n items
\* in the store's order and a context of the n entries "[title]: content"
\* in that order, a blank line between two entries; for n = 0 the context
\* is empty and rawMatches is the empty list.
C20_QueryReturnsMatchesInOrder ==
    (StoreAnswered /\ q_pc = "responded") =>
        /\ q_response.status = 200
        /\ Len(q_response.rawMatches) = Len(q_matches)
        /\ \A i \in DOMAIN q_matches :
              /\ q_response.rawMatches[i].score = q_matches[i].score
              /\ q_response.rawMatches[i].metadata.title =
                    Get(Get(q_matches[i], "metadata", <<>>), "title", "Unknown")
              /\ q_response.rawMatches[i].content =
                    Get(Get(q_matches[i], "metadata", <<>>), "text", "No text available")
        /\ q_response.context =
              ContextOfFirst(q_response.rawMatches, Len(q_matches))
        /\ Len(q_matches) = 0 =>
              (q_response.context = "" /\ q_response.rawMatches = <<>>)

\* topK = 5 and the store returns two matches.
C20_Witness ==
    /\ q_pc = "responded"
    /\ q_req.topK = 5
    /\ Len(q_matches) = 2
    /\ q_matches[1].id = "d2-chunk-0" /\ q_matches[2].id = "d1-chunk-0"
    /\ Len(q_response.rawMatches) = 2
    /\ q_response.context = "[Small]: beta\n\n[Big]: alpha"

----------------------------------------------------------------------------
(* Claims about both endpoints of the server.                              *)

\* C21: a request with no vector-store credential is answered with an
\* error before anything else happens: no call to the store or to the
\* embedding provider is made and no background task is scheduled.
C21_MissingCredentialFailsFast ==
    /\ \A r \in DOMAIN req :
          req[r].pineconeApiKey = "" =>
             /\ h_pc[r] \in {"idle", "responded"}
             /\ h_pc[r] = "responded" => response[r].status >= 400
             /\ task[r] = NoTask /\ bg[r] = NoLocals
             /\ indexed_file_ids[r] = {}
             /\ \A e \in events : e.run # r
    /\ (q_pc # "off" /\ q_req.pineconeApiKey = "") =>
          /\ q_pc \in {"idle", "responded"}
          /\ q_pc = "responded" => q_response.status >= 400
          /\ q_matches = <<>>

\* The ingest request without credential has been refused while another
\* run has stored records.
C21_Witness ==
    /\ h_pc # <<>>
    /\ req[2].pineconeApiKey = ""
    /\ h_pc[2] = "responded" /\ response[2].status >= 400
    /\ store # {}

\* C27: a request that fails validation (no documents, no vector-store
\* key, an empty query, neither folder_id nor file_ids) is answered 400.
C27_ValidationFailuresAnswered400 ==
    /\ \A r \in DOMAIN h_pc :
          (/\ h_pc[r] = "responded"
           /\ (req[r].documents = <<>> \/ req[r].pineconeApiKey = ""))
             => response[r].status = 400
    /\ (/\ q_pc = "responded"
        /\ (q_req.pineconeApiKey = "" \/ q_req.query = ""))
          => q_response.status = 400
    /\ (/\ ld_pc = "responded"
        /\ ld_req.folder_id = "" /\ ld_req.file_ids = <<>>)
          => ld_response.status = 400

\* C28: every document counted as new is handed to the background task:
\* the N of "Processing started for N new documents" is the sum of the
\* documentCounts and the number of documents the task goes through.
C28_EveryNewDocumentProcessed ==
    \A r \in DOMAIN h_pc :
        (response[r].status = 200 /\ response[r].new > 0) =>
            /\ response[r].new = response[r].documentCounts.simulation
                                 + response[r].documentCounts.technical
                                 + response[r].documentCounts.general
            /\ response[r].new = Len(TaskDocs(task[r]))
            /\ h_pc[r] = "done" => bg[r].doc_ix = response[r].new

\* The record ids a single run over the documents leaves in the store.
SingleRunIds(docs) ==
    UNION {{docs[n].id \o "-chunk-" \o ToString(k) :
               k \in 0..(Len(docs[n].content) - 1)} : n \in DOMAIN docs}

\* Both runs read the index before any record was written.
BothReadFirst == \A r \in Runs : Event(r, "stats_total", "", 0) \in events

\* Every batch of every document of run r was upserted with success.
AllOk(r) ==
    \A n \in DOMAIN TaskDocs(task[r]) : DocAllOk(r, TaskDocs(task[r])[n])

\* C29: two runs over the same documents that both read the index before
\* either wrote, interleaved in any order, leave the record ids of a single
\* run in the store, with one record for each id.
C29_InterleavedRunsSameIds ==
    (/\ h_pc # <<>>
     /\ \A r \in Runs : h_pc[r] = "done"
     /\ BothReadFirst
     /\ req[1].documents = req[2].documents)
    => LET ids == {rec.id : rec \in store}
           single == SingleRunIds(TaskDocs(task[1]))
       IN /\ ids \subseteq single
          /\ Cardinality(store) = Cardinality(ids)
          /\ (\E r \in Runs : AllOk(r)) => ids = single

\* Both runs read an empty index, so each had read before the other wrote;
\* both stored every batch of the two documents, one with provider vectors
\* and the other with deterministic ones.
C29_Witness ==
    /\ h_pc = [r \in Runs |-> "done"]
    /\ BothReadFirst
    /\ req[1].documents = <<DocBig, DocSmall>>
    /\ req[2].documents = <<DocBig, DocSmall>>
    /\ req[1].voyageApiKey = "voyage-key" /\ req[2].voyageApiKey = ""
    /\ AllOk(1) /\ AllOk(2)
    /\ Cardinality(store) = BigDocChunks + 1

\* C30: every vector sent to the store has the dimension the store
\* reported in init_pinecone: the vectors of an upsert and the zero vector
\* of the sample query.
C30_VectorsHaveIndexDimension ==
    \A r \in DOMAIN h_pc :
        /\ h_pc[r] = "bg_upsert" =>
              \A k \in DOMAIN bg[r].vectors :
                  bg[r].vectors[k].values.dim = index_dimension
        /\ Event(r, "sample_query", "", 0) \in events => Dimension = index_dimension

\* C26: the total the run reports ("Processed n files into t chunks") is the
\* number of chunks that were sent in an upsert request.
C26_TotalCountsAttemptedChunks ==
    (sc_pc = "end" /\ new_files # <<>>) => total_chunks = sc_attempted

----------------------------------------------------------------------------
(* Claims about parallel processing.                                       *)

\* What the call returns when calls run one after the other (SimpleCall,
\* DetCall).
SequentialVector(fn, t) ==
    IF fn = "simple" THEN Draws(Md5Seed(t), ParDim)
    ELSE GenerateDeterministicEmbedding(t, ParDim)

\* C25: chunks embedded in parallel get the vector they get when embedded
\* one after the other, since no mutable state is shared between them.
C25_ParallelSameVectors ==
    \A w \in Workers : par # <<>> /\ par[w].pc = "done" =>
        par[w].values = SequentialVector(par[w].fn, par[w].text)

\* The embedder of src/api/app.py alone does keep the property.
OwnGeneratorSameVectors ==
    \A w \in Workers :
        par # <<>> /\ par[w].pc = "done" /\ par[w].fn = "deterministic" =>
            par[w].values = SequentialVector(par[w].fn, par[w].text)

============================================================================
